---------------------------- MODULE Spec2Model ----------------------------
(***************************************************************************)
(* markdownql: the query pipeline tokenize -> parse_query -> execute_query *)
(* and the interactive loop of main that drives it.                        *)
(*                                                                         *)
(* A character is a one-element atom (a TLA+ string naming the character); *)
(* a Rust String is the sequence of its characters.                        *)
(***************************************************************************)
EXTENDS Integers, Sequences, FiniteSets, TLC

VARIABLES
    pc,               \* where the pipeline stands
    overflow_checks,  \* build profile: TRUE = debug (arithmetic overflow panics)
    input,            \* tokenize: the &str being scanned
    pos,              \* tokenize: number of characters consumed by the for loop
    tokens,           \* tokenize: Vec<Token> built so far
    buffer,           \* tokenize: the accumulation String
    in_string,        \* tokenize: inside a string literal
    escape,           \* tokenize: a backslash is pending
    line_number,      \* tokenize: line counter
    column,           \* tokenize: column counter
    tok_result,       \* tokenize: the returned Result (or a panic)
    parse_tokens,     \* parse_query: the token slice
    tpos,             \* parse_query: tokens consumed from tokens_iter
    elements,         \* parse_query: elements
    file_path,        \* parse_query: file_path
    condition,        \* parse_query: condition
    sel_elements,     \* parse_select: its local elements
    parse_result,     \* parse_query: the returned Result (or a panic)
    query,            \* execute_query: the Query executed
    ast,              \* execute_query: the document tree
    eidx,             \* execute_query: elements of the query handled so far
    headings,         \* execute_query: headings
    paragraphs,       \* execute_query: paragraphs
    matching_text,    \* execute_query: matching_text
    exec_result,      \* execute_query: the returned Result
    written,          \* the query the line read was rendered from (history only)
    lines_read,       \* main: lines read so far
    printed           \* main: what was printed for each line handled

lexvars   == <<input, pos, tokens, buffer, in_string, escape, line_number, column, tok_result>>
parsevars == <<parse_tokens, tpos, elements, file_path, condition, sel_elements, parse_result>>
execvars  == <<query, ast, eidx, headings, paragraphs, matching_text, exec_result>>
mainvars  == <<written, lines_read, printed>>
vars      == <<pc, overflow_checks, lexvars, parsevars, execvars, mainvars>>
\* what each stage leaves alone
lexrest   == <<overflow_checks, parsevars, execvars, mainvars>>
parserest == <<overflow_checks, lexvars, execvars, mainvars>>
execrest  == <<overflow_checks, lexvars, parsevars, mainvars>>

-----------------------------------------------------------------------------
(* Bounds of the model *)

MaxPieces    == 4    \* pieces of text in an input of tokenize
MaxTokens    == 4    \* tokens in an input of parse_query
MaxBlocks    == 2    \* children of the root of a document
MaxElements  == 2    \* elements of an executed query
MaxSelectors == 2    \* selectors of a query typed at the prompt
MaxLines     == 2    \* lines read by main

-----------------------------------------------------------------------------
(* Characters and strings *)

NL      == "\n"
TAB     == "\t"
QUOTE   == "\""
BSLASH  == "\\"
EACUTE  == "U+00E9"    \* a character that takes two bytes in UTF-8
EACUTEU == "U+00C9"    \* its upper case

LowerLetters == <<"a","b","c","d","e","f","g","h","i","j","k","l","m",
                  "n","o","p","q","r","s","t","u","v","w","x","y","z",EACUTE>>
UpperLetters == <<"A","B","C","D","E","F","G","H","I","J","K","L","M",
                  "N","O","P","Q","R","S","T","U","V","W","X","Y","Z",EACUTEU>>

\* char::is_whitespace, on the characters of the model
IsWhitespace(c) == c \in {" ", NL, TAB}

\* char::len_utf8: String::len counts bytes
Utf8Len(c) == IF c \in {EACUTE, EACUTEU} THEN 2 ELSE 1

RECURSIVE ByteLen(_)
ByteLen(s) == IF s = <<>> THEN 0 ELSE Utf8Len(Head(s)) + ByteLen(Tail(s))

ToUpperChar(c) ==
    IF \E i \in DOMAIN LowerLetters : LowerLetters[i] = c
    THEN UpperLetters[CHOOSE i \in DOMAIN LowerLetters : LowerLetters[i] = c]
    ELSE c

\* str::to_uppercase
ToUppercase(s) == [i \in DOMAIN s |-> ToUpperChar(s[i])]

RECURSIVE Concat(_)
Concat(ss) == IF ss = <<>> THEN <<>> ELSE Head(ss) \o Concat(Tail(ss))

\* all sequences over S of length at most n
SeqsUpTo(S, n) == UNION {[1..k -> S] : k \in 0..n}

\* str::contains: pat occurs in s as a contiguous substring
Contains(s, pat) ==
    \E i \in 0..(Len(s) - Len(pat)) : SubSeq(s, i + 1, i + Len(pat)) = pat

W_SELECT     == <<"S","E","L","E","C","T">>
W_FROM       == <<"F","R","O","M">>
W_WHERE      == <<"W","H","E","R","E">>
W_STAR       == <<"*">>
W_headings   == <<"h","e","a","d","i","n","g","s">>
W_paragraphs == <<"p","a","r","a","g","r","a","p","h","s">>
W_text       == <<"t","e","x","t">>

-----------------------------------------------------------------------------
(* Tokens *)

Keyword(kw, l, c)        == [type |-> "Keyword", kw |-> kw, text |-> <<>>, line |-> l, col |-> c]
Identifier(s, l, c)      == [type |-> "Identifier", kw |-> "", text |-> s, line |-> l, col |-> c]
Punctuation(ch, l, c)    == [type |-> "Punctuation", kw |-> "", text |-> <<ch>>, line |-> l, col |-> c]
StringLiteral(s, l, c)   == [type |-> "StringLiteral", kw |-> "", text |-> s, line |-> l, col |-> c]

NoError == [kind |-> "", character |-> "", line |-> 0, column |-> 0]
Running == [status |-> "Running", value |-> <<>>, error |-> NoError]
Panic   == [status |-> "Panic", value |-> <<>>, error |-> NoError]
Ok(v)   == [status |-> "Ok", value |-> v, error |-> NoError]
Err(e)  == [status |-> "Err", value |-> <<>>, error |-> e]

UnexpectedEscapeSequence(ch, l, c) ==
    [kind |-> "UnexpectedEscapeSequence", character |-> ch, line |-> l, column |-> c]
UnterminatedStringLiteral(l, c) ==
    [kind |-> "UnterminatedStringLiteral", character |-> "", line |-> l, column |-> c]

-----------------------------------------------------------------------------
(* tokenize: one action per arm of the loop body, one for the code after it *)

\* the match on the upper-cased buffer of the whitespace arm
KeywordOrIdentifier(buf, l, c) ==
    CASE ToUppercase(buf) = W_SELECT -> Keyword("SELECT", l, c)
      [] ToUppercase(buf) = W_FROM   -> Keyword("FROM", l, c)
      [] ToUppercase(buf) = W_WHERE  -> Keyword("WHERE", l, c)
      [] ToUppercase(buf) = W_STAR   -> Keyword("ALL", l, c)
      [] OTHER                       -> Identifier(buf, l, c)

\* usize subtraction. With overflow checks (debug profile) a - b panics when
\* a < b; without them (release profile) it wraps: a result r < 0 stands for
\* the usize value 2^w + r.
SubOverflows(a, b) == a < b
UsizeSub(a, b)     == a - b

Scanning  == pc = "tokenize" /\ pos < Len(input)
Cur       == input[pos + 1]
\* the match that opens the loop body
NewLine   == IF Cur = NL THEN line_number + 1 ELSE line_number
NewColumn == IF Cur = NL THEN 1 ELSE column + 1
Advance   == pos' = pos + 1 /\ line_number' = NewLine /\ column' = NewColumn

\* column - buffer.len(), as evaluated after the position update
LexemeColumn  == UsizeSub(NewColumn, ByteLen(buffer))
LexemePanics  == overflow_checks /\ SubOverflows(NewColumn, ByteLen(buffer))
PanicInTokenize == tok_result' = Panic /\ pc' = "aborted"

EscapedChar(c) ==
    CASE c = "n"    -> NL
      [] c = "t"    -> TAB
      [] c = BSLASH -> BSLASH
      [] c = QUOTE  -> QUOTE
      [] OTHER      -> ""

TokEscape ==
    /\ Scanning /\ escape
    /\ Advance
    /\ IF Cur \in {"n", "t", BSLASH, QUOTE}
       THEN /\ buffer' = Append(buffer, EscapedChar(Cur))
            /\ escape' = FALSE
            /\ UNCHANGED <<tok_result, pc>>
       ELSE /\ tok_result' = Err(UnexpectedEscapeSequence(Cur, NewLine, NewColumn))
            /\ pc' = "tokenized"
            /\ UNCHANGED <<buffer, escape>>
    /\ UNCHANGED <<input, tokens, in_string>>
    /\ UNCHANGED lexrest

TokInString ==
    /\ Scanning /\ ~escape /\ in_string
    /\ Advance
    /\ CASE Cur = BSLASH ->
              /\ escape' = TRUE
              /\ UNCHANGED <<tokens, buffer, in_string, tok_result, pc>>
         [] Cur = QUOTE ->
              IF LexemePanics
              THEN /\ PanicInTokenize
                   /\ UNCHANGED <<tokens, buffer, in_string, escape>>
              ELSE /\ tokens' = Append(tokens, StringLiteral(buffer, NewLine, LexemeColumn))
                   /\ buffer' = <<>>
                   /\ in_string' = FALSE
                   /\ UNCHANGED <<escape, tok_result, pc>>
         [] OTHER ->
              /\ buffer' = Append(buffer, Cur)
              /\ UNCHANGED <<tokens, in_string, escape, tok_result, pc>>
    /\ UNCHANGED input
    /\ UNCHANGED lexrest

TokWhitespace ==
    /\ Scanning /\ ~escape /\ ~in_string /\ IsWhitespace(Cur)
    /\ Advance
    /\ IF buffer = <<>>
       THEN UNCHANGED <<tokens, buffer, tok_result, pc>>
       ELSE IF LexemePanics
            THEN PanicInTokenize /\ UNCHANGED <<tokens, buffer>>
            ELSE /\ tokens' = Append(tokens, KeywordOrIdentifier(buffer, NewLine, LexemeColumn))
                 /\ buffer' = <<>>
                 /\ UNCHANGED <<tok_result, pc>>
    /\ UNCHANGED <<input, in_string, escape>>
    /\ UNCHANGED lexrest

TokOpenQuote ==
    /\ Scanning /\ ~escape /\ ~in_string /\ ~IsWhitespace(Cur) /\ Cur = QUOTE
    /\ Advance
    /\ in_string' = TRUE
    /\ UNCHANGED <<input, tokens, buffer, escape, tok_result, pc>>
    /\ UNCHANGED lexrest

TokPunctuation ==
    /\ Scanning /\ ~escape /\ ~in_string /\ ~IsWhitespace(Cur) /\ Cur \in {",", "."}
    /\ Advance
    /\ IF buffer = <<>>
       THEN /\ tokens' = Append(tokens, Punctuation(Cur, NewLine, NewColumn))
            /\ UNCHANGED <<buffer, tok_result, pc>>
       ELSE IF LexemePanics
            THEN PanicInTokenize /\ UNCHANGED <<tokens, buffer>>
            ELSE /\ tokens' = tokens \o <<Identifier(buffer, NewLine, LexemeColumn),
                                          Punctuation(Cur, NewLine, NewColumn)>>
                 /\ buffer' = <<>>
                 /\ UNCHANGED <<tok_result, pc>>
    /\ UNCHANGED <<input, in_string, escape>>
    /\ UNCHANGED lexrest

TokBufferChar ==
    /\ Scanning /\ ~escape /\ ~in_string /\ ~IsWhitespace(Cur)
    /\ Cur \notin {QUOTE, ",", "."}
    /\ Advance
    /\ buffer' = Append(buffer, Cur)
    /\ UNCHANGED <<input, tokens, in_string, escape, tok_result, pc>>
    /\ UNCHANGED lexrest

\* the code after the loop
TokEndOfInput ==
    /\ pc = "tokenize" /\ pos = Len(input)
    /\ IF escape
       THEN /\ tok_result' = Err(UnterminatedStringLiteral(line_number, column))
            /\ pc' = "tokenized"
            /\ UNCHANGED tokens
       ELSE IF buffer # <<>>
            THEN IF in_string
                 THEN /\ tok_result' = Err(UnterminatedStringLiteral(line_number, column))
                      /\ pc' = "tokenized"
                      /\ UNCHANGED tokens
                 ELSE IF overflow_checks /\ SubOverflows(column, ByteLen(buffer))
                      THEN PanicInTokenize /\ UNCHANGED tokens
                      ELSE /\ tokens' = Append(tokens,
                                   Identifier(buffer, line_number, UsizeSub(column, ByteLen(buffer))))
                           /\ tok_result' = Ok(tokens')
                           /\ pc' = "tokenized"
            ELSE /\ tok_result' = Ok(tokens)
                 /\ pc' = "tokenized"
                 /\ UNCHANGED tokens
    /\ UNCHANGED <<input, pos, buffer, in_string, escape, line_number, column>>
    /\ UNCHANGED lexrest

\* the locals of tokenize as it starts on text
LexStart(text) ==
    /\ input = text
    /\ pos = 0
    /\ tokens = <<>>
    /\ buffer = <<>>
    /\ in_string = FALSE
    /\ escape = FALSE
    /\ line_number = 1
    /\ column = 0
    /\ tok_result = Running

-----------------------------------------------------------------------------
(* parse_query, parse_select, parse_file_path, parse_condition *)

All        == [kind |-> "All", text |-> <<>>]
Headings   == [kind |-> "Headings", text |-> <<>>]
Paragraphs == [kind |-> "Paragraphs", text |-> <<>>]
Text(s)    == [kind |-> "Text", text |-> s]

None    == [some |-> FALSE, value |-> <<>>]
NoToken == [type |-> "", kw |-> "", text |-> <<>>, line |-> 0, col |-> 0]

Query(es, fp, cond) == [elements |-> es, file_path |-> fp, condition |-> cond]

UnexpectedToken(tok) == [kind |-> "UnexpectedToken", token |-> tok]
UnexpectedEndOfInput == [kind |-> "UnexpectedEndOfInput", token |-> NoToken]

IsKeyword(tok, kw) == tok.type = "Keyword" /\ tok.kw = kw
IsComma(tok)       == tok.type = "Punctuation" /\ tok.text = <<",">>

HasNext    == tpos < Len(parse_tokens)
\* the token tokens_iter.next() returns, and the one after it
NextToken  == parse_tokens[tpos + 1]
HasSecond  == tpos + 1 < Len(parse_tokens)
SecondToken == parse_tokens[tpos + 2]


\* mutant: a later SELECT clause replaces the elements
ExtendReplacing(v, more) == more

\* Vec::extend
Extend(v, more) == v \o more

\* mutant: an identifier that names no selector is an error
SelectorStrict(tok, after) ==
    IF IsKeyword(tok, "ALL")
    THEN [ok |-> TRUE, element |-> All, error |-> UnexpectedEndOfInput, used |-> 1]
    ELSE IF tok.type = "Identifier"
    THEN CASE tok.text = W_headings ->
                [ok |-> TRUE, element |-> Headings, error |-> UnexpectedEndOfInput, used |-> 1]
           [] tok.text = W_paragraphs ->
                [ok |-> TRUE, element |-> Paragraphs, error |-> UnexpectedEndOfInput, used |-> 1]
           [] tok.text = W_text ->
                IF after.type = "StringLiteral"
                THEN [ok |-> TRUE, element |-> Text(after.text),
                      error |-> UnexpectedEndOfInput, used |-> 2]
                ELSE [ok |-> FALSE, element |-> All, error |-> UnexpectedEndOfInput,
                      used |-> IF after = NoToken THEN 1 ELSE 2]
           [] OTHER ->
                [ok |-> FALSE, element |-> All, error |-> UnexpectedToken(tok), used |-> 1]
    ELSE [ok |-> FALSE, element |-> All, error |-> UnexpectedToken(tok), used |-> 1]

\* the match of parse_select on the selector `tok`, `after` being what the next
\* tokens_iter.next() would return (NoToken for none):
\* the element pushed, or the error returned, and the tokens consumed
Selector(tok, after) ==
    IF IsKeyword(tok, "ALL")
    THEN [ok |-> TRUE, element |-> All, error |-> UnexpectedEndOfInput, used |-> 1]
    ELSE IF tok.type = "Identifier"
    THEN CASE tok.text = W_headings ->
                [ok |-> TRUE, element |-> Headings, error |-> UnexpectedEndOfInput, used |-> 1]
           [] tok.text = W_paragraphs ->
                [ok |-> TRUE, element |-> Paragraphs, error |-> UnexpectedEndOfInput, used |-> 1]
           [] tok.text = W_text ->
                IF after.type = "StringLiteral"
                THEN [ok |-> TRUE, element |-> Text(after.text),
                      error |-> UnexpectedEndOfInput, used |-> 2]
                ELSE [ok |-> FALSE, element |-> All, error |-> UnexpectedEndOfInput,
                      used |-> IF after = NoToken THEN 1 ELSE 2]
           [] OTHER ->
                [ok |-> TRUE, element |-> Text(tok.text), error |-> UnexpectedEndOfInput, used |-> 1]
    ELSE [ok |-> FALSE, element |-> All, error |-> UnexpectedToken(tok), used |-> 1]

SelectorHere == Selector(NextToken, IF HasSecond THEN SecondToken ELSE NoToken)

\* top level: Keyword SELECT, parse_select is entered
ParseSelectClause ==
    /\ pc = "parse" /\ HasNext /\ IsKeyword(NextToken, "SELECT")
    /\ tpos' = tpos + 1
    /\ sel_elements' = <<>>
    /\ pc' = "select"
    /\ UNCHANGED <<parse_tokens, elements, file_path, condition, parse_result>>
    /\ UNCHANGED parserest

\* mutant: the token peeked at after a selector is consumed when it is no comma
ParseSelectItemConsumingPeek ==
    /\ pc = "select" /\ HasNext /\ SelectorHere.ok
    /\ LET sel   == SelectorHere
           after == tpos + sel.used
           more  == Append(sel_elements, sel.element)
       IN IF after < Len(parse_tokens) /\ IsComma(parse_tokens[after + 1])
          THEN /\ tpos' = after + 1
               /\ sel_elements' = more
               /\ UNCHANGED <<elements, pc>>
          ELSE /\ tpos' = IF after < Len(parse_tokens) THEN after + 1 ELSE after
               /\ sel_elements' = <<>>
               /\ elements' = Extend(elements, more)
               /\ pc' = "parse"
    /\ UNCHANGED <<parse_tokens, file_path, condition, parse_result>>
    /\ UNCHANGED parserest

\* parse_select: a selector is pushed; a comma after it is consumed and the loop
\* goes on, anything else (or nothing) ends the loop and the elements are returned
ParseSelectItem ==
    /\ pc = "select" /\ HasNext /\ SelectorHere.ok
    /\ LET sel   == SelectorHere
           after == tpos + sel.used
           more  == Append(sel_elements, sel.element)
       IN IF after < Len(parse_tokens) /\ IsComma(parse_tokens[after + 1])
          THEN /\ tpos' = after + 1
               /\ sel_elements' = more
               /\ UNCHANGED <<elements, pc>>
          ELSE \* break; or nothing to peek at: the loop goes round and next() ends it
               /\ tpos' = after
               /\ sel_elements' = <<>>
               /\ elements' = Extend(elements, more)
               /\ pc' = "parse"
    /\ UNCHANGED <<parse_tokens, file_path, condition, parse_result>>
    /\ UNCHANGED parserest

\* parse_select returns an error, which `?` returns from parse_query
ParseSelectFail ==
    /\ pc = "select" /\ HasNext /\ ~SelectorHere.ok
    /\ tpos' = tpos + SelectorHere.used
    /\ parse_result' = Err(SelectorHere.error)
    /\ pc' = "parsed"
    /\ UNCHANGED <<parse_tokens, elements, file_path, condition, sel_elements>>
    /\ UNCHANGED parserest

\* parse_select: the iterator is exhausted where a selector is expected
ParseSelectExhausted ==
    /\ pc = "select" /\ ~HasNext
    /\ elements' = Extend(elements, sel_elements)
    /\ sel_elements' = <<>>
    /\ pc' = "parse"
    /\ UNCHANGED <<parse_tokens, tpos, file_path, condition, parse_result>>
    /\ UNCHANGED parserest

\* top level: Keyword FROM, parse_file_path
ParseFromClause ==
    /\ pc = "parse" /\ HasNext /\ IsKeyword(NextToken, "FROM")
    /\ IF ~HasSecond
       THEN /\ tpos' = tpos + 1
            /\ parse_result' = Err(UnexpectedEndOfInput)
            /\ pc' = "parsed"
            /\ UNCHANGED file_path
       ELSE IF SecondToken.type = "StringLiteral"
       THEN /\ tpos' = tpos + 2
            /\ file_path' = SecondToken.text
            /\ UNCHANGED <<parse_result, pc>>
       ELSE /\ tpos' = tpos + 2
            /\ parse_result' = Err(UnexpectedToken(SecondToken))
            /\ pc' = "parsed"
            /\ UNCHANGED file_path
    /\ UNCHANGED <<parse_tokens, elements, condition, sel_elements>>
    /\ UNCHANGED parserest

\* mutant: parse_condition takes the token after WHERE as the condition
ParseWhereClauseParsing ==
    /\ pc = "parse" /\ HasNext /\ IsKeyword(NextToken, "WHERE")
    /\ IF HasSecond
       THEN /\ tpos' = tpos + 2
            /\ condition' = [some |-> TRUE, value |-> SecondToken.text]
            /\ UNCHANGED <<parse_result, pc>>
       ELSE /\ tpos' = tpos + 1
            /\ parse_result' = Err(UnexpectedEndOfInput)
            /\ pc' = "parsed"
            /\ UNCHANGED condition
    /\ UNCHANGED <<parse_tokens, elements, file_path, sel_elements>>
    /\ UNCHANGED parserest

\* top level: Keyword WHERE, parse_condition is unimplemented!() and panics
ParseWhereClause ==
    /\ pc = "parse" /\ HasNext /\ IsKeyword(NextToken, "WHERE")
    /\ tpos' = tpos + 1
    /\ parse_result' = Panic
    /\ pc' = "aborted"
    /\ UNCHANGED <<parse_tokens, elements, file_path, condition, sel_elements>>
    /\ UNCHANGED parserest

\* top level: any other keyword (ALL) falls into the empty arm
ParseOtherKeyword ==
    /\ pc = "parse" /\ HasNext /\ NextToken.type = "Keyword"
    /\ NextToken.kw \notin {"SELECT", "FROM", "WHERE"}
    /\ tpos' = tpos + 1
    /\ UNCHANGED <<parse_tokens, elements, file_path, condition, sel_elements, parse_result, pc>>
    /\ UNCHANGED parserest

\* mutant: a token that is no keyword is skipped at top level
ParseUnexpectedSkipping ==
    /\ pc = "parse" /\ HasNext /\ NextToken.type # "Keyword"
    /\ tpos' = tpos + 1
    /\ UNCHANGED <<parse_tokens, elements, file_path, condition, sel_elements, parse_result, pc>>
    /\ UNCHANGED parserest

\* top level: a token that is no keyword
ParseUnexpected ==
    /\ pc = "parse" /\ HasNext /\ NextToken.type # "Keyword"
    /\ tpos' = tpos + 1
    /\ parse_result' = Err(UnexpectedToken(NextToken))
    /\ pc' = "parsed"
    /\ UNCHANGED <<parse_tokens, elements, file_path, condition, sel_elements>>
    /\ UNCHANGED parserest

\* top level: the iterator is exhausted, the Query is returned
ParseReturn ==
    /\ pc = "parse" /\ ~HasNext
    /\ parse_result' = Ok(Query(elements, file_path, condition))
    /\ pc' = "parsed"
    /\ UNCHANGED <<parse_tokens, tpos, elements, file_path, condition, sel_elements>>
    /\ UNCHANGED parserest

\* the locals of parse_query as it starts on toks
ParseStart(toks) ==
    /\ parse_tokens = toks
    /\ tpos = 0
    /\ elements = <<>>
    /\ file_path = <<>>
    /\ condition = None
    /\ sel_elements = <<>>
    /\ parse_result = Running

-----------------------------------------------------------------------------
(* The document tree (markdown::mdast::Node) and execute_query *)

TextNode(v)       == [kind |-> "Text", value |-> v, children |-> <<>>]
Node(kind, nodes) == [kind |-> kind, value |-> <<>>, children |-> nodes]

\* heading_to_string / paragraph_to_string: the values of the direct Text children
RECURSIVE TextOfChildren(_)
TextOfChildren(nodes) ==
    IF nodes = <<>> THEN <<>>
    ELSE (IF Head(nodes).kind = "Text" THEN Head(nodes).value ELSE <<>>)
         \o TextOfChildren(Tail(nodes))

\* mutant: the text of the children's children is taken too
RECURSIVE TextBelow(_)
TextBelow(nodes) ==
    IF nodes = <<>> THEN <<>>
    ELSE (IF Head(nodes).kind = "Text" THEN Head(nodes).value
          ELSE TextBelow(Head(nodes).children))
         \o TextBelow(Tail(nodes))
heading_to_string_deep(heading) == TextBelow(heading.children)

heading_to_string(heading)     == TextOfChildren(heading.children)
paragraph_to_string(paragraph) == TextOfChildren(paragraph.children)

RECURSIVE extract_headings_recursive(_), HeadingsOfChildren(_)
extract_headings_recursive(node) ==
    CASE node.kind = "Heading" -> <<heading_to_string(node)>>
      [] node.kind = "Root"    -> HeadingsOfChildren(node.children)
      [] OTHER                 -> <<>>
HeadingsOfChildren(nodes) ==
    IF nodes = <<>> THEN <<>>
    ELSE extract_headings_recursive(Head(nodes)) \o HeadingsOfChildren(Tail(nodes))

RECURSIVE extract_paragraphs_recursive(_), ParagraphsOfChildren(_)
extract_paragraphs_recursive(node) ==
    CASE node.kind = "Paragraph" -> <<paragraph_to_string(node)>>
      [] node.kind = "Root"      -> ParagraphsOfChildren(node.children)
      [] OTHER                   -> <<>>
ParagraphsOfChildren(nodes) ==
    IF nodes = <<>> THEN <<>>
    ELSE extract_paragraphs_recursive(Head(nodes)) \o ParagraphsOfChildren(Tail(nodes))

RECURSIVE extract_matching_text_recursive(_, _), MatchingTextOfChildren(_, _)
extract_matching_text_recursive(node, text) ==
    CASE node.kind = "Text" -> IF Contains(node.value, text) THEN <<node.value>> ELSE <<>>
      [] node.kind = "Root" -> MatchingTextOfChildren(node.children, text)
      [] OTHER              -> <<>>
MatchingTextOfChildren(nodes, text) ==
    IF nodes = <<>> THEN <<>>
    ELSE extract_matching_text_recursive(Head(nodes), text)
         \o MatchingTextOfChildren(Tail(nodes), text)

extract_headings(root)            == extract_headings_recursive(root)
extract_paragraphs(root)          == extract_paragraphs_recursive(root)
extract_matching_text(root, text) == extract_matching_text_recursive(root, text)

\* the three accumulators of execute_query
Acc(h, p, m) == [headings |-> h, paragraphs |-> p, matching_text |-> m]

\* the arms of the match in the loop of execute_query
ArmHeadings(acc, tree) ==
    [acc EXCEPT !.headings = Extend(@, extract_headings(tree))]
ArmParagraphs(acc, tree) ==
    [acc EXCEPT !.paragraphs = Extend(@, extract_paragraphs(tree))]
ArmText(acc, tree, text) ==
    [acc EXCEPT !.matching_text = Extend(@, extract_matching_text(tree, text))]
\* mutant: All collects the headings only
ArmAllHeadingsOnly(acc, tree) ==
    [acc EXCEPT !.headings = Extend(@, extract_headings(tree))]
ArmAll(acc, tree) ==
    [acc EXCEPT !.headings = Extend(@, extract_headings(tree)),
                !.paragraphs = Extend(@, extract_paragraphs(tree))]

ExecuteElement(acc, tree, element) ==
    CASE element.kind = "Headings"   -> ArmHeadings(acc, tree)
      [] element.kind = "Paragraphs" -> ArmParagraphs(acc, tree)
      [] element.kind = "Text"       -> ArmText(acc, tree, element.text)
      [] element.kind = "All"        -> ArmAll(acc, tree)

FileReadError      == [kind |-> "FileReadError", token |-> NoToken]
MarkdownParseError == [kind |-> "MarkdownParseError", token |-> NoToken]

NoTree == Node("None", <<>>)

\* current_dir, read_to_string and to_mdast: the file system and the markdown
\* parser are outside the program; the file is unreadable, or does not parse, or
\* parses to one of the trees of `documents`
ExecLoad(documents) ==
    /\ pc = "execute_load"
    /\ \/ /\ exec_result' = Err(FileReadError)
          /\ pc' = "executed"
          /\ UNCHANGED ast
       \/ /\ exec_result' = Err(MarkdownParseError)
          /\ pc' = "executed"
          /\ UNCHANGED ast
       \/ /\ query.file_path # <<>>   \* the empty path names the directory itself
          /\ ast' \in documents
          /\ pc' = "execute"
          /\ UNCHANGED exec_result
    /\ UNCHANGED <<query, eidx, headings, paragraphs, matching_text>>
    /\ UNCHANGED execrest

\* one round of `for element in &query.elements`
ExecElement ==
    /\ pc = "execute" /\ eidx < Len(query.elements)
    /\ LET acc == ExecuteElement(Acc(headings, paragraphs, matching_text), ast,
                                 query.elements[eidx + 1])
       IN /\ headings' = acc.headings
          /\ paragraphs' = acc.paragraphs
          /\ matching_text' = acc.matching_text
    /\ eidx' = eidx + 1
    /\ UNCHANGED <<query, ast, exec_result, pc>>
    /\ UNCHANGED execrest

\* Ok(QueryResult { .. })
ExecReturn ==
    /\ pc = "execute" /\ eidx = Len(query.elements)
    /\ exec_result' = Ok(Acc(headings, paragraphs, matching_text))
    /\ pc' = "executed"
    /\ UNCHANGED <<query, ast, eidx, headings, paragraphs, matching_text>>
    /\ UNCHANGED execrest

\* the locals of execute_query as it starts on q
ExecStart(q) ==
    /\ query = q
    /\ ast = NoTree
    /\ eidx = 0
    /\ headings = <<>>
    /\ paragraphs = <<>>
    /\ matching_text = <<>>
    /\ exec_result = Running

-----------------------------------------------------------------------------
(* main: the interactive loop *)

\* str::trim
RECURSIVE TrimStart(_)
TrimStart(s) == IF s # <<>> /\ IsWhitespace(Head(s)) THEN TrimStart(Tail(s)) ELSE s
RECURSIVE TrimEnd(_)
TrimEnd(s) ==
    IF s # <<>> /\ IsWhitespace(s[Len(s)]) THEN TrimEnd(SubSeq(s, 1, Len(s) - 1)) ELSE s
Trim(s) == TrimEnd(TrimStart(s))

W_exit == <<"e","x","i","t">>
W_quit == <<"q","u","i","t">>

CallTokenize(text) ==
    /\ input' = text
    /\ pos' = 0
    /\ tokens' = <<>>
    /\ buffer' = <<>>
    /\ in_string' = FALSE
    /\ escape' = FALSE
    /\ line_number' = 1
    /\ column' = 0
    /\ tok_result' = Running

CallParseQuery(toks) ==
    /\ parse_tokens' = toks
    /\ tpos' = 0
    /\ elements' = <<>>
    /\ file_path' = <<>>
    /\ condition' = None
    /\ sel_elements' = <<>>
    /\ parse_result' = Running

CallExecuteQuery(q) ==
    /\ query' = q
    /\ ast' = NoTree
    /\ eidx' = 0
    /\ headings' = <<>>
    /\ paragraphs' = <<>>
    /\ matching_text' = <<>>
    /\ exec_result' = Running

NoQuery    == [selectors |-> <<>>, sep |-> <<>>, path |-> <<>>, valid |-> FALSE]
EmptyQuery == Query(<<>>, <<>>, None)

\* the end of the arm of `match readline`: the line's tokens, query and result
\* are dropped, and the loop goes round
DropLocals ==
    /\ CallTokenize(<<>>)
    /\ CallParseQuery(<<>>)
    /\ CallExecuteQuery(EmptyQuery)
    /\ written' = NoQuery

\* rl.readline returns Ok(line) and the line is no exit command: tokenize(&line)
MainReadLine(line, w) ==
    /\ pc = "readline"
    /\ lines_read < MaxLines
    /\ Trim(line) \notin {W_exit, W_quit}
    /\ lines_read' = lines_read + 1
    /\ written' = w
    /\ CallTokenize(line)
    /\ pc' = "tokenize"
    /\ UNCHANGED <<overflow_checks, parsevars, execvars, printed>>

\* rl.readline returns Ok("exit" | "quit"): break
MainExit(line) ==
    /\ pc = "readline"
    /\ Trim(line) \in {W_exit, W_quit}
    /\ pc' = "exited"
    /\ UNCHANGED <<overflow_checks, lexvars, parsevars, execvars, mainvars>>

\* rl.readline returns Err(Interrupted), Err(Eof) or another error: break
MainReadlineError ==
    /\ pc = "readline"
    /\ pc' = "exited"
    /\ UNCHANGED <<overflow_checks, lexvars, parsevars, execvars, mainvars>>

\* match tokenize(&line)
MainTokenized ==
    /\ pc = "tokenized"
    /\ IF tok_result.status = "Ok"
       THEN /\ CallParseQuery(tok_result.value)
            /\ pc' = "parse"
            /\ UNCHANGED <<lexvars, execvars, written, printed>>
       ELSE /\ printed' = Append(printed, "Tokenization error")
            /\ pc' = "readline"
            /\ DropLocals
    /\ UNCHANGED <<overflow_checks, lines_read>>

\* match parse_query(&tokens)
MainParsed ==
    /\ pc = "parsed"
    /\ IF parse_result.status = "Ok"
       THEN /\ CallExecuteQuery(parse_result.value)
            /\ pc' = "execute_load"
            /\ UNCHANGED <<lexvars, parsevars, written, printed>>
       ELSE /\ printed' = Append(printed, "Error parsing query")
            /\ pc' = "readline"
            /\ DropLocals
    /\ UNCHANGED <<overflow_checks, lines_read>>

\* match result
MainExecuted ==
    /\ pc = "executed"
    /\ printed' = Append(printed, IF exec_result.status = "Ok"
                                  THEN "result" ELSE "Query execution error")
    /\ pc' = "readline"
    /\ DropLocals
    /\ UNCHANGED <<overflow_checks, lines_read>>

-----------------------------------------------------------------------------
(* The stages *)

Tokenize ==
    \/ TokEscape
    \/ TokInString
    \/ TokWhitespace
    \/ TokOpenQuote
    \/ TokPunctuation
    \/ TokBufferChar
    \/ TokEndOfInput

Parse ==
    \/ ParseSelectClause
    \/ ParseSelectItem
    \/ ParseSelectFail
    \/ ParseSelectExhausted
    \/ ParseFromClause
    \/ ParseWhereClause
    \/ ParseOtherKeyword
    \/ ParseUnexpected
    \/ ParseReturn

Execute(documents) ==
    \/ ExecLoad(documents)
    \/ ExecElement
    \/ ExecReturn

-----------------------------------------------------------------------------
(* Inputs *)

\* tokenize: every text made of at most MaxPieces of these pieces
TokPieces ==
    { <<"f","r","o","m">>, <<"*">>, <<"n">>, <<"t">>, <<EACUTE>>, <<" ">>, <<NL>>,
      <<",">>, <<".">>, <<QUOTE>>, <<BSLASH>> }
TokInputs == {Concat(ps) : ps \in SeqsUpTo(TokPieces, MaxPieces)}


\* parse_query: every sequence of at most MaxTokens of these tokens, each at its
\* own place (line 1, column = its index)
TokenShapes ==
    { Keyword("SELECT", 0, 0), Keyword("FROM", 0, 0), Keyword("WHERE", 0, 0),
      Keyword("ALL", 0, 0),
      Identifier(W_headings, 0, 0), Identifier(W_paragraphs, 0, 0),
      Identifier(W_text, 0, 0), Identifier(<<"f","o","o">>, 0, 0),
      Punctuation(",", 0, 0), Punctuation(".", 0, 0),
      StringLiteral(<<"x">>, 0, 0), StringLiteral(<<>>, 0, 0) }
Placed(shapes) == [i \in DOMAIN shapes |-> [shapes[i] EXCEPT !.line = 1, !.col = i]]
ParseInputs == {Placed(shapes) : shapes \in SeqsUpTo(TokenShapes, MaxTokens)}

\* execute_query: the documents to_mdast can return. The children of the root
\* are blocks; a heading and a paragraph hold inline nodes; a block quote holds
\* blocks.
T_ab == TextNode(<<"a","b">>)
T_b  == TextNode(<<"b">>)
Inlines ==
    { <<T_ab>>, <<T_ab, T_b>>, <<T_b, Node("Emphasis", <<T_ab>>), T_ab>>,
      <<Node("Emphasis", <<T_b>>)>> }
Blocks ==
    {Node("Heading", ns) : ns \in Inlines \cup {<<>>}}
    \cup {Node("Paragraph", ns) : ns \in Inlines}
    \cup { Node("Blockquote", <<Node("Heading", <<T_b>>), Node("Paragraph", <<T_ab>>)>>),
           Node("ThematicBreak", <<>>) }

\* "# Title\n\nSome text here.\n"
S_Title == <<"T","i","t","l","e">>
S_Some  == <<"S","o","m","e"," ","t","e","x","t"," ","h","e","r","e",".">>
ExampleDoc ==
    Node("Root", << Node("Heading", <<TextNode(S_Title)>>),
                    Node("Paragraph", <<TextNode(S_Some)>>) >>)

Documents == {Node("Root", bs) : bs \in SeqsUpTo(Blocks, MaxBlocks)} \cup {ExampleDoc}

ExecElements == {All, Headings, Paragraphs, Text(<<"b">>), Text(<<"a">>)}
ExecQueries ==
    {Query(es, <<"d">>, None) : es \in SeqsUpTo(ExecElements, MaxElements)}

\* main: queries typed at the prompt as the grammar of the language writes them,
\*   SELECT <selector>[, <selector>...] FROM "<path>"
\* with a blank after or before the commas
Written(form, arg) == [form |-> form, arg |-> arg]
WrittenSelectors ==
    { Written("*", <<>>), Written("headings", <<>>), Written("paragraphs", <<>>),
      Written("text", <<"b", QUOTE>>), Written("identifier", <<"f","o","o">>) }
Separators == { <<",", " ">>, <<" ", ",">> }
WrittenQueries ==
    { [selectors |-> ss, sep |-> sp, path |-> <<"d">>, valid |-> TRUE] :
          ss \in SeqsUpTo(WrittenSelectors, MaxSelectors) \ {<<>>}, sp \in Separators }

\* a string as written between quotes
RECURSIVE Quoted(_)
Quoted(str) ==
    IF str = <<>> THEN <<>>
    ELSE (CASE Head(str) = NL     -> <<BSLASH, "n">>
            [] Head(str) = TAB    -> <<BSLASH, "t">>
            [] Head(str) = BSLASH -> <<BSLASH, BSLASH>>
            [] Head(str) = QUOTE  -> <<BSLASH, QUOTE>>
            [] OTHER              -> <<Head(str)>>)
         \o Quoted(Tail(str))

RenderSelector(sel) ==
    CASE sel.form = "*"          -> <<"*">>
      [] sel.form = "headings"   -> W_headings
      [] sel.form = "paragraphs" -> W_paragraphs
      [] sel.form = "text"       -> W_text \o <<" ", QUOTE>> \o Quoted(sel.arg) \o <<QUOTE>>
      [] sel.form = "identifier" -> sel.arg

RECURSIVE RenderList(_, _)
RenderList(sels, sep) ==
    IF Len(sels) = 1 THEN RenderSelector(sels[1])
    ELSE RenderSelector(sels[1]) \o sep \o RenderList(Tail(sels), sep)

Render(w) ==
    W_SELECT \o <<" ">> \o RenderList(w.selectors, w.sep) \o <<" ">>
    \o W_FROM \o <<" ", QUOTE>> \o Quoted(w.path) \o <<QUOTE>>

\* main: other lines typed at the prompt
OtherLines ==
    { <<>>,
      <<"f","o","o">>,
      <<"*", " ">>,
      W_SELECT \o <<" ">>,
      W_SELECT \o <<" ", ",">>,
      <<QUOTE, BSLASH, "q", QUOTE>>,
      <<QUOTE, "d">>,
      W_FROM \o <<" ", QUOTE, QUOTE>>,
      Render([selectors |-> <<Written("*", <<>>)>>, sep |-> <<>>, path |-> <<"d">>,
              valid |-> TRUE]) \o <<" ">> \o W_WHERE \o <<" ", "x">> }
ExitLines == { W_exit, <<" ">> \o W_quit \o <<" ">> }

\* main: what the file named by a query can hold
ReplDocuments ==
    { ExampleDoc,
      Node("Root", << Node("Blockquote", <<Node("Heading", <<T_b>>)>>),
                      Node("Paragraph", <<T_ab, T_b>>) >>) }

IdleMain  == written = NoQuery /\ lines_read = 0 /\ printed = <<>>

-----------------------------------------------------------------------------
(* tokenize on its own *)

InitTokenize ==
    /\ pc = "tokenize"
    /\ overflow_checks \in BOOLEAN
    /\ \E text \in TokInputs : LexStart(text)
    /\ ParseStart(<<>>)
    /\ ExecStart(EmptyQuery)
    /\ IdleMain

SpecTokenize == InitTokenize /\ [][Tokenize]_vars

-----------------------------------------------------------------------------
(* parse_query on its own *)

InitParse ==
    /\ pc = "parse"
    /\ overflow_checks = FALSE
    /\ LexStart(<<>>)
    /\ \E toks \in ParseInputs : ParseStart(toks)
    /\ ExecStart(EmptyQuery)
    /\ IdleMain

SpecParse == InitParse /\ [][Parse]_vars

\* parse_query is sequential code: once called it keeps running
SpecParseFair == SpecParse /\ WF_vars(Parse)

-----------------------------------------------------------------------------
(* execute_query on its own *)

InitExecute ==
    /\ pc = "execute_load"
    /\ overflow_checks = FALSE
    /\ LexStart(<<>>)
    /\ ParseStart(<<>>)
    /\ \E q \in ExecQueries : ExecStart(q)
    /\ IdleMain

NextExecute == Execute(Documents)

SpecExecute == InitExecute /\ [][NextExecute]_vars

-----------------------------------------------------------------------------
(* The program: main reading lines and running the pipeline on each *)

Init ==
    /\ pc = "readline"
    /\ overflow_checks \in BOOLEAN
    /\ LexStart(<<>>)
    /\ ParseStart(<<>>)
    /\ ExecStart(EmptyQuery)
    /\ IdleMain

ReadQuery == \E w \in WrittenQueries : MainReadLine(Render(w), w)
ReadOther == \E line \in OtherLines : MainReadLine(line, NoQuery)
ReadExit  == \E line \in ExitLines : MainExit(line)
ExecuteOnFile == Execute(ReplDocuments)

Next ==
    \/ ReadQuery
    \/ ReadOther
    \/ ReadExit
    \/ MainReadlineError
    \/ Tokenize
    \/ MainTokenized
    \/ Parse
    \/ MainParsed
    \/ ExecuteOnFile
    \/ MainExecuted

Spec == Init /\ [][Next]_vars

-----------------------------------------------------------------------------
(* The document tree, by paths: what the claims about execute_query speak of *)

\* the paths (sequences of child indices) of the nodes of a tree
RECURSIVE PathsOf(_)
PathsOf(node) ==
    {<<>>} \cup UNION { {<<i>> \o p : p \in PathsOf(node.children[i])} :
                        i \in DOMAIN node.children }

RECURSIVE NodeAt(_, _)
NodeAt(node, path) ==
    IF path = <<>> THEN node ELSE NodeAt(node.children[Head(path)], Tail(path))

\* p comes before q in pre-order, depth first
RECURSIVE Before(_, _)
Before(p, q) ==
    IF p = <<>> THEN q # <<>>
    ELSE IF q = <<>> THEN FALSE
    ELSE IF Head(p) # Head(q) THEN Head(p) < Head(q)
    ELSE Before(Tail(p), Tail(q))

\* the paths of S in pre-order
Preorder(S) ==
    [r \in 1..Cardinality(S) |->
        CHOOSE p \in S : Cardinality({q \in S : Before(q, p)}) = r - 1]

\* every node strictly above the node at path is of kind Root
UnderRootsOnly(tree, path) ==
    \A k \in 0..(Len(path) - 1) : NodeAt(tree, SubSeq(path, 1, k)).kind = "Root"

\* the values of the direct Text children of a node, in order, as one string
DirectText(node) ==
    Concat([i \in DOMAIN node.children |->
               IF node.children[i].kind = "Text" THEN node.children[i].value ELSE <<>>])

\* one string per node of kind `kind` reached through Root nodes only, in pre-order
StringsOfKind(tree, kind) ==
    LET found == {p \in PathsOf(tree) :
                     NodeAt(tree, p).kind = kind /\ UnderRootsOnly(tree, p)}
        order == Preorder(found)
    IN [r \in DOMAIN order |-> DirectText(NodeAt(tree, order[r]))]

\* the value of every Text node of the tree that contains pattern, in pre-order
TextsAnywhere(tree, pattern) ==
    LET found == {p \in PathsOf(tree) :
                     /\ NodeAt(tree, p).kind = "Text"
                     /\ Contains(NodeAt(tree, p).value, pattern)}
        order == Preorder(found)
    IN [r \in DOMAIN order |-> NodeAt(tree, order[r]).value]

\* the loop of execute_query handles an element of kind `kind`
Executes(kind) ==
    /\ pc = "execute" /\ eidx < Len(query.elements)
    /\ query.elements[eidx + 1].kind = kind
    /\ eidx' = eidx + 1

-----------------------------------------------------------------------------
(* Claims about execute_query, under SpecExecute *)

\* C4: executing Text(p) appends to matching_text, in pre-order, the value of
\* every Text node anywhere in the tree that contains p, and nothing else.
\* The code descends through Root nodes only, so the Text children of headings
\* and paragraphs are never reached.
C4_TextAnywhere ==
    (pc \in {"execute", "executed"} /\ eidx >= 1 /\ query.elements[1].kind = "Text"
       /\ Len(query.elements) = 1)
    => matching_text = TextsAnywhere(ast, query.elements[1].text)

\* C6: a round of the loop on All leaves headings as a round on Headings alone
\* would, paragraphs as a round on Paragraphs alone would, and matching_text as
\* it was; and SELECT * on the document "# Title / Some text here." returns
\* headings ["Title"], paragraphs ["Some text here."] and no matching_text.
C6_AllIsHeadingsAndParagraphs ==
    /\ [][Executes("All") =>
            LET acc == Acc(headings, paragraphs, matching_text)
            IN /\ headings' = ArmHeadings(acc, ast).headings
               /\ paragraphs' = ArmParagraphs(acc, ast).paragraphs
               /\ matching_text' = matching_text]_vars
    /\ []((pc = "executed" /\ exec_result.status = "Ok"
             /\ ast = ExampleDoc /\ query.elements = <<All>>)
          => exec_result.value = Acc(<<S_Title>>, <<S_Some>>, <<>>))

\* C6 witness: SELECT * has been executed on the example document
C6_Witness ==
    /\ pc = "executed" /\ exec_result.status = "Ok"
    /\ ast = ExampleDoc /\ query.elements = <<All>>
    /\ headings = <<S_Title>> /\ paragraphs = <<S_Some>>

\* C7: a round of the loop on Headings (Paragraphs) appends one string per
\* Heading (Paragraph) node reached from the root through Root nodes only, in
\* pre-order, each the concatenation of the values of the node's direct Text
\* children; nodes under any other container contribute nothing.
C7_HeadingsAndParagraphs ==
    /\ [][Executes("Headings") =>
            /\ headings' = headings \o StringsOfKind(ast, "Heading")
            /\ paragraphs' = paragraphs
            /\ matching_text' = matching_text]_vars
    /\ [][Executes("Paragraphs") =>
            /\ paragraphs' = paragraphs \o StringsOfKind(ast, "Paragraph")
            /\ headings' = headings
            /\ matching_text' = matching_text]_vars

\* C7 witness: Headings was executed on a document whose root holds a block
\* quote with a heading in it and a heading with a non-Text child between two
\* Text children; only the latter was collected
C7_Witness ==
    /\ pc = "execute" /\ eidx = 1 /\ query.elements[1] = Headings
    /\ Len(ast.children) = 2
    /\ ast.children[1].kind = "Blockquote"
    /\ ast.children[1].children[1].kind = "Heading"
    /\ ast.children[2] = Node("Heading", <<T_b, Node("Emphasis", <<T_ab>>), T_ab>>)
    /\ headings = << <<"b","a","b">> >>

-----------------------------------------------------------------------------
(* Claims about parse_query, under SpecParse *)

\* a selector is written right after SELECT or after a comma
AtSelectorPosition(toks, i) ==
    /\ i > 1
    /\ IsKeyword(toks[i - 1], "SELECT") \/ IsComma(toks[i - 1])

\* the element a written selector stands for
WrittenElement(toks, i) ==
    CASE IsKeyword(toks[i], "ALL") -> All
      [] toks[i].text = W_headings -> Headings
      [] toks[i].text = W_paragraphs -> Paragraphs
      [] toks[i].text = W_text ->
            Text(IF i < Len(toks) THEN toks[i + 1].text ELSE <<>>)
      [] OTHER -> Text(toks[i].text)

\* the selectors of every SELECT clause from token i on, in source order
RECURSIVE WrittenElements(_, _)
WrittenElements(toks, i) ==
    IF i > Len(toks) THEN <<>>
    ELSE (IF AtSelectorPosition(toks, i) THEN <<WrittenElement(toks, i)>> ELSE <<>>)
         \o WrittenElements(toks, i + 1)

FromClauses(toks) == {i \in DOMAIN toks : IsKeyword(toks[i], "FROM")}
Max(S) == CHOOSE m \in S : \A n \in S : n <= m

\* the string literal of the last FROM clause
WrittenPath(toks) ==
    IF FromClauses(toks) = {} THEN <<>> ELSE toks[Max(FromClauses(toks)) + 1].text

\* C9: when parse_query succeeds, elements is the concatenation, in source
\* order, of the selectors of every SELECT clause, and file_path is the string
\* literal of the last FROM clause.
C9_ElementsInOrderLastFrom ==
    (pc = "parsed" /\ parse_result.status = "Ok")
    => /\ parse_result.value.elements = WrittenElements(parse_tokens, 1)
       /\ parse_result.value.file_path = WrittenPath(parse_tokens)

\* C9 witness: two SELECT clauses, the second appended to the first
C9_Witness ==
    /\ pc = "parsed" /\ parse_result.status = "Ok"
    /\ Len(parse_tokens) = 4
    /\ IsKeyword(parse_tokens[1], "SELECT") /\ IsKeyword(parse_tokens[3], "SELECT")
    /\ parse_result.value.elements = <<Headings, Text(<<"f","o","o">>)>>

\* C9 witness, second half: two FROM clauses, the second overwriting the first
C9_WitnessFrom ==
    /\ pc = "parsed" /\ parse_result.status = "Ok"
    /\ Len(parse_tokens) = 4
    /\ IsKeyword(parse_tokens[1], "FROM") /\ IsKeyword(parse_tokens[3], "FROM")
    /\ parse_tokens[2].text = <<>>
    /\ parse_result.value.file_path = <<"x">>

\* parse_select is about to take a selector
TakesSelector == pc = "select" /\ HasNext
\* the element parse_select pushes in this step
Pushes(e) ==
    \/ pc' = "select" /\ sel_elements' = Append(sel_elements, e)
    \/ pc' = "parse" /\ elements' = elements \o Append(sel_elements, e)
\* the error parse_query returns in this step
Fails(e) == pc' = "parsed" /\ parse_result' = Err(e)

\* C10: at a selector position, `text` followed by a string literal s gives
\* Text(s) and consumes both tokens; `text` followed by nothing or by another
\* token fails with UnexpectedEndOfInput; an identifier other than headings,
\* paragraphs and text gives Text(identifier); a token that is neither ALL nor
\* an identifier fails with UnexpectedToken carrying that token.
C10_SelectorCases ==
    [][TakesSelector =>
        LET tok == NextToken IN
        /\ (tok.type = "Identifier" /\ tok.text = W_text /\ HasSecond
              /\ SecondToken.type = "StringLiteral")
           => Pushes(Text(SecondToken.text)) /\ tpos' >= tpos + 2
        /\ (tok.type = "Identifier" /\ tok.text = W_text
              /\ (~HasSecond \/ SecondToken.type # "StringLiteral"))
           => Fails(UnexpectedEndOfInput)
        /\ (tok.type = "Identifier" /\ tok.text \notin {W_headings, W_paragraphs, W_text})
           => Pushes(Text(tok.text))
        /\ (tok.type # "Identifier" /\ ~IsKeyword(tok, "ALL"))
           => Fails(UnexpectedToken(tok))]_vars

\* C10 witness: `text` followed by a token that is no string literal has failed
\* with UnexpectedEndOfInput
C10_Witness ==
    /\ pc = "parsed" /\ parse_result = Err(UnexpectedEndOfInput)
    /\ tpos = 3
    /\ IsKeyword(parse_tokens[1], "SELECT")
    /\ parse_tokens[2].text = W_text /\ parse_tokens[2].type = "Identifier"
    /\ parse_tokens[3].type = "Punctuation"

-----------------------------------------------------------------------------
(* Claims about tokenize, under SpecTokenize *)

\* the 1-based line and column of the i-th character of the input
LineOf(i) == 1 + Cardinality({j \in 1..(i - 1) : input[j] = NL})
ColumnOf(i) == i - Max({0} \cup {j \in 1..(i - 1) : input[j] = NL})

\* the index of the quote that opened the string literal the lexer is in after
\* i characters (0: it is in none), and whether a backslash is pending
RECURSIVE StringMode(_)
StringMode(i) ==
    IF i = 0 THEN [open |-> 0, esc |-> FALSE]
    ELSE LET before == StringMode(i - 1)
             c      == input[i]
         IN IF before.esc THEN [before EXCEPT !.esc = FALSE]
            ELSE IF before.open > 0
            THEN CASE c = BSLASH -> [before EXCEPT !.esc = TRUE]
                   [] c = QUOTE  -> [open |-> 0, esc |-> FALSE]
                   [] OTHER      -> before
            ELSE IF c = QUOTE THEN [open |-> i, esc |-> FALSE] ELSE before

\* where the lexeme of a token emitted in this step starts: a punctuation mark
\* is the current character; a string literal starts after its opening quote;
\* an identifier or keyword is the run of characters before the current one
LexemeStart(tok) ==
    CASE tok.type = "Punctuation"   -> pos + 1
      [] tok.type = "StringLiteral" -> StringMode(pos).open + 1
      [] OTHER                      -> pos + 1 - Len(buffer)

\* C2: every token emitted records the 1-based line on which its lexeme starts
\* and the 1-based column of the lexeme's first character, however it is
\* flushed and on every line of the input.
C2_TokenPositions ==
    [][(pc = "tokenize" /\ Len(tokens') > Len(tokens)) =>
         \A k \in (Len(tokens) + 1)..Len(tokens') :
            /\ tokens'[k].line = LineOf(LexemeStart(tokens'[k]))
            /\ tokens'[k].col = ColumnOf(LexemeStart(tokens'[k]))]_vars

\* C3: when the scan reaches the end of the input inside a string literal, or
\* with an escape pending, tokenize returns Err(UnterminatedStringLiteral).
C3_UnterminatedString ==
    (pc = "tokenized" /\ pos = Len(input)
       /\ tok_result.error.kind # "UnexpectedEscapeSequence"
       /\ (in_string \/ escape))
    => /\ tok_result.status = "Err"
       /\ tok_result.error.kind = "UnterminatedStringLiteral"

C8_EscapesOnOneLine ==
    [][(Scanning /\ escape /\ \A i \in DOMAIN input : input[i] # NL) =>
         /\ Cur = "n" => buffer' = Append(buffer, NL)
         /\ Cur = "t" => buffer' = Append(buffer, TAB)
         /\ Cur = BSLASH => buffer' = Append(buffer, BSLASH)
         /\ Cur = QUOTE => buffer' = Append(buffer, QUOTE)
         /\ Cur \in {"n", "t", BSLASH, QUOTE}
            => in_string' = in_string /\ tokens' = tokens /\ pc' = "tokenize"
         /\ Cur \notin {"n", "t", BSLASH, QUOTE}
            => /\ pc' = "tokenized"
               /\ tok_result' = Err(UnexpectedEscapeSequence(
                                      Cur, LineOf(pos + 1), ColumnOf(pos + 1)))]_vars

-----------------------------------------------------------------------------
(* Claims about the whole pipeline, under Spec *)

WrittenAs(sel) ==
    CASE sel.form = "*"          -> All
      [] sel.form = "headings"   -> Headings
      [] sel.form = "paragraphs" -> Paragraphs
      [] sel.form = "text"       -> Text(sel.arg)
      [] sel.form = "identifier" -> Text(sel.arg)

\* C1: for a query SELECT <selector>[, <selector>...] FROM "<path>" without a
\* WHERE clause, whatever the blanks around the commas, tokenize succeeds and
\* parse_query returns the written selectors in order (* as All) and the
\* written path.
C1_RoundTrip ==
    written.valid =>
        /\ pc # "aborted"
        /\ pc = "tokenized" => tok_result.status = "Ok"
        /\ pc = "parsed" =>
              parse_result =
                 Ok(Query([i \in DOMAIN written.selectors |-> WrittenAs(written.selectors[i])],
                          written.path, None))

\* C5: a failed query never terminates the process: the handling of every line
\* other than exit/quit ends with a result or a stage-labelled error printed,
\* one per line read, and the loop goes on; no stage failure aborts the process.
C5_FailedQueryNeverTerminates ==
    /\ pc # "aborted"
    /\ pc \in {"readline", "exited"} => Len(printed) = lines_read


\* a stage is entered in this step
StartsTokenize == pc # "tokenize" /\ pc' = "tokenize"
StartsParse    == pc \notin {"parse", "select"} /\ pc' = "parse"
StartsExecute  == pc # "execute_load" /\ pc' = "execute_load"
\* the handling of the line read ends in this step
EndsLine       == pc \notin {"readline", "exited"} /\ pc' = "readline"

\* C11, the order of the stages: tokenize is entered only on a line just read,
\* parse_query only on the tokens of a tokenize that returned Ok, execute_query
\* only on the Query of a parse_query that returned Ok; a stage that returned
\* Err is followed by its labelled error and the next read, with no later stage
\* entered; and an outcome is printed only as the handling of a line ends, one
\* at a time.
C11_StagesInOrder ==
    /\ [][StartsTokenize => pc = "readline" /\ lines_read' = lines_read + 1]_vars
    /\ [][StartsParse =>
            /\ pc = "tokenized" /\ tok_result.status = "Ok"
            /\ parse_tokens' = tok_result.value]_vars
    /\ [][StartsExecute =>
            /\ pc = "parsed" /\ parse_result.status = "Ok"
            /\ query' = parse_result.value]_vars
    /\ [][(pc = "tokenized" /\ tok_result.status = "Err") =>
            /\ EndsLine
            /\ printed' = Append(printed, "Tokenization error")]_vars
    /\ [][(pc = "parsed" /\ parse_result.status = "Err") =>
            /\ EndsLine
            /\ printed' = Append(printed, "Error parsing query")]_vars
    /\ [][pc = "executed" =>
            /\ EndsLine
            /\ printed' = Append(printed, IF exec_result.status = "Ok"
                                          THEN "result" ELSE "Query execution error")]_vars
    /\ [][printed' # printed => EndsLine /\ Len(printed') = Len(printed) + 1]_vars

\* C11: the stages run in order, each only after the one before returned Ok, and
\* once the handling of a line is over, in whatever way, exactly one outcome
\* (a result or one stage-labelled error) has been printed for each line read.
C11_OneOutcomePerLine ==
    /\ C11_StagesInOrder
    /\ [](pc \in {"readline", "exited", "aborted"} => Len(printed) = lines_read)

\* C12: in a Query parse_query returns, file_path is empty only if the tokens
\* hold no FROM clause; after a FROM clause was parsed it is non-empty.
C12_FilePathEmptyOnlyWithoutFrom ==
    (pc = "parsed" /\ parse_result.status = "Ok" /\ parse_result.value.file_path = <<>>)
    => FromClauses(parse_tokens) = {}

-----------------------------------------------------------------------------
(* More claims about parse_query, under SpecParse *)

\* the top-level loop of parse_query is about to take token i
DispatchesAt(i) == pc = "parse" /\ tpos = i - 1 /\ i <= Len(parse_tokens)

\* C13: when the top-level loop of parse_query takes a WHERE keyword, the call
\* aborts there: it returns neither Ok nor an error, the WHERE is the last token
\* consumed and nothing runs after it; and every Query that parse_query
\* returns has condition = None.
C13_WhereAborts ==
    /\ [][\A i \in DOMAIN parse_tokens :
            (DispatchesAt(i) /\ IsKeyword(parse_tokens[i], "WHERE"))
            => /\ pc' = "aborted"
               /\ parse_result'.status \notin {"Ok", "Err"}
               /\ tpos' = i]_vars
    /\ [][pc # "aborted"]_vars
    /\ []((pc = "parsed" /\ parse_result.status = "Ok")
          => parse_result.value.condition = None)

\* C13 witness: FROM "x" WHERE foo has aborted at the WHERE, foo not consumed
C13_Witness ==
    /\ pc = "aborted" /\ parse_result = Panic
    /\ Len(parse_tokens) = 4 /\ tpos = 3
    /\ IsKeyword(parse_tokens[1], "FROM") /\ IsKeyword(parse_tokens[3], "WHERE")
    /\ file_path = <<"x">> /\ condition = None

-----------------------------------------------------------------------------
(* More claims about tokenize, under SpecTokenize *)

\* a token without its position
Shape(tok) == [type |-> tok.type, kw |-> tok.kw, text |-> tok.text]
\* the tokens appended in this step, without their positions
Emitted == [k \in 1..(Len(tokens') - Len(tokens)) |-> Shape(tokens'[Len(tokens) + k])]

SameIgnoringCase(a, b) ==
    Len(a) = Len(b) /\ \A i \in DOMAIN a : ToUpperChar(a[i]) = ToUpperChar(b[i])

\* what a buffer ended by whitespace is to become
EndedByWhitespace(buf) ==
    IF SameIgnoringCase(buf, W_SELECT) THEN Shape(Keyword("SELECT", 0, 0))
    ELSE IF SameIgnoringCase(buf, W_FROM) THEN Shape(Keyword("FROM", 0, 0))
    ELSE IF SameIgnoringCase(buf, W_WHERE) THEN Shape(Keyword("WHERE", 0, 0))
    ELSE IF buf = <<"*">> THEN Shape(Keyword("ALL", 0, 0))
    ELSE Shape(Identifier(buf, 0, 0))

\* the tokens a step outside string mode is to append: Cur is the character
\* read, or "" at the end of the input
ToEmit(c) ==
    (IF buffer = <<>> THEN <<>>
     ELSE IF c # "" /\ IsWhitespace(c) THEN <<EndedByWhitespace(buffer)>>
     ELSE IF c \in {",", ".", ""} THEN <<Shape(Identifier(buffer, 0, 0))>>
     ELSE <<>>)
    \o (IF c \in {",", "."} THEN <<Shape(Punctuation(c, 0, 0))>> ELSE <<>>)

OutsideString == pc = "tokenize" /\ ~in_string /\ ~escape

\* C14: outside string mode, a buffer ended by whitespace becomes the Keyword
\* it spells (ignoring case; * is ALL) or else an Identifier; ended by , or . or
\* by the end of the input it becomes an Identifier whatever it spells; , and .
\* then give their own Punctuation token; an empty buffer gives no token.
C14_TokenKinds ==
    /\ [][(OutsideString /\ pos < Len(input)) => Emitted = ToEmit(Cur)]_vars
    /\ [][(OutsideString /\ pos = Len(input)) => Emitted = ToEmit("")]_vars

\* C14 wherever column - buffer.len() does not overflow: the same
C14_TokenKindsWithoutOverflow ==
    /\ [][(OutsideString /\ pos < Len(input)
             /\ ~SubOverflows(NewColumn, ByteLen(buffer))) => Emitted = ToEmit(Cur)]_vars
    /\ [][(OutsideString /\ pos = Len(input)
             /\ ~SubOverflows(column, ByteLen(buffer))) => Emitted = ToEmit("")]_vars

-----------------------------------------------------------------------------
(* parse_query at top level, under SpecParse *)

\* a selector written as one token
OneTokenSelector(tok) ==
    IsKeyword(tok, "ALL") \/ (tok.type = "Identifier" /\ tok.text # W_text)

\* C15: a token that is no Keyword, taken at the top level of parse_query, makes
\* it return UnexpectedToken carrying that token, the token that follows a
\* selector without a comma included; an ALL keyword taken at top level is
\* consumed and leaves elements, file_path and condition as they were.
C15_TopLevelTokens ==
    /\ [][\A i \in DOMAIN parse_tokens :
            (DispatchesAt(i) /\ parse_tokens[i].type # "Keyword")
            => /\ pc' = "parsed"
               /\ parse_result' = Err(UnexpectedToken(parse_tokens[i]))]_vars
    /\ [][\A i \in DOMAIN parse_tokens :
            (DispatchesAt(i) /\ IsKeyword(parse_tokens[i], "ALL"))
            => /\ pc' = "parse" /\ tpos' = i
               /\ elements' = elements /\ file_path' = file_path
               /\ condition' = condition /\ parse_result' = parse_result]_vars
    /\ []((/\ pc = "parsed" /\ Len(parse_tokens) >= 3
           /\ IsKeyword(parse_tokens[1], "SELECT")
           /\ OneTokenSelector(parse_tokens[2])
           /\ parse_tokens[3].type # "Keyword" /\ ~IsComma(parse_tokens[3]))
          => /\ parse_result = Err(UnexpectedToken(parse_tokens[3]))
             /\ tpos = 3)

\* C15 witness: SELECT headings "x": the string literal the select list left
\* unconsumed was taken at top level and returned in UnexpectedToken
C15_Witness ==
    /\ pc = "parsed" /\ Len(parse_tokens) = 3 /\ tpos = 3
    /\ IsKeyword(parse_tokens[1], "SELECT")
    /\ parse_tokens[2].text = W_headings
    /\ parse_tokens[3].type = "StringLiteral"
    /\ elements = <<Headings>>
    /\ parse_result = Err(UnexpectedToken(parse_tokens[3]))

-----------------------------------------------------------------------------
(* The result of execute_query as a whole, under SpecExecute *)

\* seq written n times over
RECURSIVE Repeat(_, _)
Repeat(seq, n) == IF n = 0 THEN <<>> ELSE seq \o Repeat(seq, n - 1)

\* how many elements of es are of one of the kinds
Occurrences(es, kinds) == Cardinality({i \in DOMAIN es : es[i].kind \in kinds})

\* the matches of every Text(p) of es, in the order of es
TextMatches(es, tree) ==
    Concat([i \in DOMAIN es |->
              IF es[i].kind = "Text" THEN TextsAnywhere(tree, es[i].text) ELSE <<>>])

Returned == pc = "executed" /\ exec_result.status = "Ok"

\* C16: the result's headings is the extraction of the headings once per
\* Headings or All of the query, its paragraphs the extraction of the
\* paragraphs once per Paragraphs or All, and its matching_text the matches of
\* each Text(p) of the query, in the query's order; nothing is deduplicated.
C16_ResultAccumulates ==
    Returned =>
        /\ exec_result.value.headings =
              Repeat(StringsOfKind(ast, "Heading"),
                     Occurrences(query.elements, {"Headings", "All"}))
        /\ exec_result.value.paragraphs =
              Repeat(StringsOfKind(ast, "Paragraph"),
                     Occurrences(query.elements, {"Paragraphs", "All"}))
        /\ exec_result.value.matching_text = TextMatches(query.elements, ast)

\* C16 for headings and paragraphs alone
C16_HeadingsAndParagraphsAccumulate ==
    Returned =>
        /\ exec_result.value.headings =
              Repeat(StringsOfKind(ast, "Heading"),
                     Occurrences(query.elements, {"Headings", "All"}))
        /\ exec_result.value.paragraphs =
              Repeat(StringsOfKind(ast, "Paragraph"),
                     Occurrences(query.elements, {"Paragraphs", "All"}))

-----------------------------------------------------------------------------
(* The column counter and the buffer, under SpecTokenize *)

\* this step turns the buffer into a token: a closing quote, a non-empty buffer
\* ended by whitespace or by , or . outside a string, or left at the end of the
\* input
FlushesBuffer ==
    /\ pc = "tokenize" /\ ~escape
    /\ \/ pos < Len(input) /\ in_string /\ Cur = QUOTE
       \/ /\ pos < Len(input) /\ ~in_string /\ buffer # <<>>
          /\ IsWhitespace(Cur) \/ Cur \in {",", "."}
       \/ pos = Len(input) /\ ~in_string /\ buffer # <<>>

\* C17: whenever a token is made of the buffer, the column counter is at least
\* the length of the buffer, so column - buffer.len() does not go below zero:
\* the call does not panic on it and the column recorded is not a wrapped one.
C17_ColumnCoversBuffer ==
    [][FlushesBuffer =>
         /\ column' >= ByteLen(buffer)
         /\ pc' # "aborted"
         /\ \A k \in (Len(tokens) + 1)..Len(tokens') : tokens'[k].col >= 0]_vars

-----------------------------------------------------------------------------
(* String literals, under SpecTokenize *)

\* the characters a run of text written between quotes stands for
RECURSIVE Unescaped(_)
Unescaped(str) ==
    IF str = <<>> THEN <<>>
    ELSE IF Head(str) = BSLASH /\ Len(str) >= 2
    THEN (CASE str[2] = "n" -> <<NL>>
            [] str[2] = "t" -> <<TAB>>
            [] OTHER        -> <<str[2]>>)
         \o Unescaped(SubSeq(str, 3, Len(str)))
    ELSE <<Head(str)>> \o Unescaped(Tail(str))

\* C18: the buffer is empty whenever the lexer enters string mode, and the text
\* of every StringLiteral token is the unescaped run of characters written
\* between its opening and its closing quote, with nothing of what was written
\* before the opening quote.
C18_StringLiteralText ==
    /\ [][(pc = "tokenize" /\ ~in_string /\ in_string') => buffer = <<>>]_vars
    /\ [][pc = "tokenize" =>
            \A k \in (Len(tokens) + 1)..Len(tokens') :
               tokens'[k].type = "StringLiteral"
               => tokens'[k].text =
                     Unescaped(SubSeq(input, StringMode(pos).open + 1, pos))]_vars

\* C18 where nothing is written right before the opening quote: the text of
\* the literal is the unescaped run between the quotes
C18_StringLiteralTextAfterBlank ==
    [][pc = "tokenize" =>
         \A k \in (Len(tokens) + 1)..Len(tokens') :
            (/\ tokens'[k].type = "StringLiteral"
             /\ LET open == StringMode(pos).open
                IN open = 1 \/ IsWhitespace(input[open - 1])
                            \/ input[open - 1] \in {",", ".", QUOTE})
            => tokens'[k].text =
                  Unescaped(SubSeq(input, StringMode(pos).open + 1, pos))]_vars

-----------------------------------------------------------------------------
(* Termination of parse_query, under SpecParseFair *)

\* the number of tokens the selector written at token i takes
SelectorLength(i) ==
    IF /\ parse_tokens[i].type = "Identifier" /\ parse_tokens[i].text = W_text
       /\ i < Len(parse_tokens)
    THEN 2 ELSE 1

\* the number of tokens a step of the top-level loop on token i takes: a FROM
\* takes the token after it too
ClauseLength(i) ==
    IF IsKeyword(parse_tokens[i], "FROM") /\ i < Len(parse_tokens) THEN 2 ELSE 1

\* C19: parse_query terminates on every token sequence. Every round of the
\* top-level loop and of the select-list loop takes at least one token, and
\* exactly the tokens of its clause or selector (with the comma after it), so
\* that none is taken twice or skipped; the rounds that find no token left end
\* their loop; and the token the select list peeked at and left (the first one
\* after a selector that is no comma) is the one the top-level loop takes next.
C19_ParseTerminates ==
    /\ <>(pc \in {"parsed", "aborted"})
    /\ [][(pc = "parse" /\ tpos < Len(parse_tokens))
          => tpos' = tpos + ClauseLength(tpos + 1)]_vars
    /\ [][(pc = "select" /\ tpos < Len(parse_tokens)) =>
            LET j == tpos + SelectorLength(tpos + 1)
            IN CASE pc' = "select" -> IsComma(parse_tokens[j + 1]) /\ tpos' = j + 1
                 [] pc' = "parse"  ->
                      /\ tpos' = j
                      /\ j < Len(parse_tokens) => ~IsComma(parse_tokens[j + 1])
                 [] OTHER          -> pc' = "parsed" /\ tpos' = j]_vars
    /\ [][(pc = "select" /\ tpos = Len(parse_tokens))
          => pc' = "parse" /\ tpos' = tpos]_vars
    /\ [][(pc = "parse" /\ tpos = Len(parse_tokens))
          => pc' = "parsed" /\ tpos' = tpos]_vars
    /\ [](tpos <= Len(parse_tokens))
    /\ []((/\ pc = "parsed" /\ Len(parse_tokens) = 4
           /\ IsKeyword(parse_tokens[1], "SELECT") /\ OneTokenSelector(parse_tokens[2])
           /\ IsKeyword(parse_tokens[3], "FROM")
           /\ parse_tokens[4].type = "StringLiteral")
          => /\ tpos = 4
             /\ parse_result = Ok(Query(<<WrittenElement(parse_tokens, 2)>>,
                                        parse_tokens[4].text, None)))

\* C19 witness: SELECT headings FROM "x": the FROM the select list peeked at
\* was taken at top level, and every token was taken once
C19_Witness ==
    /\ pc = "parsed" /\ parse_result.status = "Ok"
    /\ Len(parse_tokens) = 4 /\ tpos = 4
    /\ IsKeyword(parse_tokens[1], "SELECT") /\ parse_tokens[2].text = W_headings
    /\ IsKeyword(parse_tokens[3], "FROM")
    /\ parse_result.value = Query(<<Headings>>, <<"x">>, None)

=============================================================================
